---------------------------- MODULE Spec2Model ----------------------------
(***************************************************************************)
(* Model of history_gif.py: the congressional-session slideshow.          *)
(*                                                                         *)
(* One browser session of the script is modelled.  A script run is main() *)
(* (load the boundary file, build the catalog, merge, read the widgets)   *)
(* followed by the loop of display_slideshow_auto, one slide per step.    *)
(* The user may interact (slider or button) between slides or after the   *)
(* pass; an interaction starts main() again.  The text service is the     *)
(* environment: it is up, raises, or answers with an unreadable payload,  *)
(* and an answer given after a change differs from the one before it.     *)
(* The boundary file does not change during a behaviour, so the cached    *)
(* merge_data (keyed by district_dates alone) returns what a new merge    *)
(* would.                                                                  *)
(*                                                                         *)
(* Strings that the program only copies are kept as strings.  Values the  *)
(* program computes on are structured: a district identifier is its three *)
(* digits, a date is a record, a date range is the sequence               *)
(* <<start, TO, end>> that str.split(' to ') cuts at the separator.       *)
(***************************************************************************)
EXTENDS Naturals, Sequences, FiniteSets

\* ------------------------------------------------------------- bounds --
\* Longest geometry source (rows of the boundary file) that is explored.
MaxRows == 2
\* Number of environment events in one behaviour: user interactions and
\* changes of the text service.
MaxEvents == 2

\* ---------------------------------------------------------- constants --
\* range(1, 26): the catalog holds districts 1..25.
NumDistricts == 25
\* f"{i:03}": identifiers are three digits wide.
IdWidth == 3

VARIABLES
    shapefile,       \* ./unioned_districts.shp: [ok, rows]
    district_dates,  \* result of create_mapping_dataframe(), <<>> before main
    merged_gdf,      \* result of merge_data(), <<>> before main
    refresh_count,   \* st.session_state.refresh_count
    cache,           \* st.cache_data of get_historical_fact: key -> fact
    svc,             \* text service: "up", "error" or "malformed"
    svcVer,          \* number of changes of the service so far
    pc,              \* "idle", "running", "completed", "aborted"
    unique_sessions, \* the loop's sequence of district identifiers
    idx,             \* position of the loop in unique_sessions
    slides,          \* slides displayed in the current pass, in order
    pauses,          \* time.sleep calls of the current pass
    passKind,        \* how the current pass began: "first", "rerun", "refresh"
    afterCompleted,  \* the current pass began from a completed pass
    epoch,           \* per (district, start, end): fetches since the last click
    cachedAtClear,   \* keys fetched before the last click
    events           \* environment events so far

vars == <<shapefile, district_dates, merged_gdf, refresh_count, cache, svc,
          svcVer, pc, unique_sessions, idx, slides, pauses, passKind,
          afterCompleted, epoch, cachedAtClear, events>>

\* ------------------------------------------------------------ helpers --
Range(s) == {s[i] : i \in 1..Len(s)}

\* f"{i:03}" for 0 <= i < 1000: the decimal digits, zero padded.
Fmt3(i) == <<(i \div 100) % 10, (i \div 10) % 10, i % 10>>

\* Order of Python strings of equal width made of digits.
IdLess(a, b) ==
    \E i \in 1..IdWidth :
        /\ a[i] < b[i]
        /\ \A j \in 1..(i - 1) : a[j] = b[j]

Date(m, d, y) == [m |-> m, d |-> d, y |-> y]
\* The separator " to " inside a date range.
TO == [m |-> "to", d |-> 0, y |-> 0]
\* pandas' missing value in a date column, and in a text column.
NaNDate == [m |-> "nan", d |-> 0, y |-> 0]
NaN == "nan"
\* A missing date_range cell.
NaNRange == <<NaNDate>>

DateRange(m1, d1, y1, m2, d2, y2) == <<Date(m1, d1, y1), TO, Date(m2, d2, y2)>>

\* ------------------------------------------------------------ catalog --
\* 'district_n': [f"{i:03}" for i in range(1, 26)]
DistrictColumn == [i \in 1..NumDistricts |-> Fmt3(i)]

\* 'order': the ordinal labels, as listed.
OrderColumn ==
    <<"1st", "2nd", "3rd", "4th", "5th",
      "6th", "7th", "8th", "9th", "10th",
      "11th", "12th", "13th", "14th", "15th",
      "16th", "17th", "18th", "19th", "20th",
      "21st", "22nd", "23rd", "24th", "25th">>

\* 'date_range': the session date ranges, as listed.
DateRangeColumn ==
    <<DateRange("March", 4, 1789, "March", 3, 1791),
      DateRange("March", 4, 1791, "March", 2, 1793),
      DateRange("March", 4, 1793, "March", 3, 1795),
      DateRange("June", 8, 1795, "March", 3, 1797),
      DateRange("March", 4, 1797, "March", 3, 1799),
      DateRange("December", 2, 1799, "March", 3, 1801),
      DateRange("March", 4, 1801, "March", 3, 1803),
      DateRange("October", 17, 1803, "March", 3, 1805),
      DateRange("December", 2, 1805, "March", 3, 1807),
      DateRange("October", 26, 1807, "March", 3, 1809),
      DateRange("March", 4, 1809, "March", 3, 1811),
      DateRange("November", 4, 1811, "March", 3, 1813),
      DateRange("May", 24, 1813, "March", 3, 1815),
      DateRange("December", 4, 1815, "March", 3, 1817),
      DateRange("March", 4, 1817, "March", 3, 1819),
      DateRange("December", 6, 1819, "March", 3, 1821),
      DateRange("December", 3, 1821, "March", 3, 1823),
      DateRange("December", 1, 1823, "March", 3, 1825),
      DateRange("March", 4, 1825, "March", 3, 1827),
      DateRange("December", 3, 1827, "March", 3, 1829),
      DateRange("March", 4, 1829, "March", 3, 1831),
      DateRange("December", 5, 1831, "March", 2, 1833),
      DateRange("December", 2, 1833, "March", 3, 1835),
      DateRange("December", 7, 1835, "March", 3, 1837),
      DateRange("March", 4, 1837, "March", 3, 1839)>>

\* The catalog with one session's dates exchanged (a slip in the table).
create_mapping_dataframe_swapped ==
    [i \in 1..NumDistricts |->
        [district_n |-> DistrictColumn[i],
         order      |-> OrderColumn[i],
         date_range |-> IF i = 4 THEN DateRangeColumn[5]
                        ELSE IF i = 5 THEN DateRangeColumn[4]
                        ELSE DateRangeColumn[i]]]

\* create_mapping_dataframe(): the data frame of the three columns.
create_mapping_dataframe ==
    [i \in 1..NumDistricts |->
        [district_n |-> DistrictColumn[i],
         order      |-> OrderColumn[i],
         date_range |-> DateRangeColumn[i]]]

\* ----------------------------------------------------- geometry source --
\* gpd.read_file("./unioned_districts.shp"): the rows of the file, or an
\* exception when the file is missing or unreadable.
load_and_combine_shapefiles(file) ==
    [raised |-> ~file.ok, rows |-> file.rows]

\* ---------------------------------------------------------------- merge --
Matches(right, key) ==
    LET Same(r) == r.district_n = key IN SelectSeq(right, Same)

JoinRow(l, r) ==
    [district_n |-> l.district_n, geometry |-> l.geometry,
     order |-> r.order, date_range |-> r.date_range]

UnmatchedLeft(l) ==
    [district_n |-> l.district_n, geometry |-> l.geometry,
     order |-> NaN, date_range |-> NaNRange]

UnmatchedRight(r) ==
    [district_n |-> r.district_n, geometry |-> "nan",
     order |-> r.order, date_range |-> r.date_range]

RECURSIVE LeftMergeFrom(_, _, _)
LeftMergeFrom(left, right, i) ==
    IF i > Len(left) THEN <<>>
    ELSE LET m == Matches(right, left[i].district_n)
             here == IF Len(m) = 0 THEN <<UnmatchedLeft(left[i])>>
                     ELSE [k \in 1..Len(m) |-> JoinRow(left[i], m[k])]
         IN  here \o LeftMergeFrom(left, right, i + 1)

\* how='outer': the rows of the right frame that no left row matches follow.
OuterMerge(left, right) ==
    LET NoLeft(r) == \A i \in 1..Len(left) : left[i].district_n # r.district_n
        rest == SelectSeq(right, NoLeft)
    IN  LeftMergeFrom(left, right, 1)
          \o [k \in 1..Len(rest) |-> UnmatchedRight(rest[k])]

\* _combined_gdf.merge(district_dates, on='district_n', how='left'): the left
\* rows in their order, each with the columns of the right row of the same
\* key, or with missing values when no right row has it.
LeftMerge(left, right) == LeftMergeFrom(left, right, 1)

\* str.split(' to '): the pieces of a cell between the separators.
RECURSIVE SplitFrom(_, _, _)
SplitFrom(cell, i, piece) ==
    IF i > Len(cell) THEN <<piece>>
    ELSE IF cell[i] = TO THEN <<piece>> \o SplitFrom(cell, i + 1, <<>>)
    ELSE SplitFrom(cell, i + 1, Append(piece, cell[i]))

\* A missing cell stays one missing value.
SplitTo(cell) == IF cell = NaNRange THEN <<NaNRange>> ELSE SplitFrom(cell, 1, <<>>)

SeqMax(s) ==
    IF Len(s) = 0 THEN 0
    ELSE CHOOSE m \in Range(s) : \A x \in Range(s) : x <= m

\* expand=True: as many columns as the longest split; shorter rows are
\* filled with missing values.
SplitColumns(rows) == SeqMax([i \in 1..Len(rows) |-> Len(SplitTo(rows[i].date_range))])

Piece(cell, k) ==
    LET p == SplitTo(cell) IN IF k <= Len(p) THEN p[k] ELSE NaNRange

\* merge_data(): the left merge, then the two date columns.  Assigning the
\* split to ['start_date', 'end_date'] raises ValueError unless the split has
\* exactly two columns (no column for an empty frame, one when every
\* date_range is missing).
merge_data(_combined_gdf, dates) ==
    LET m == LeftMerge(_combined_gdf, dates)
    IN  IF SplitColumns(m) # 2
        THEN [raised |-> TRUE, rows |-> <<>>]
        ELSE [raised |-> FALSE,
              rows |-> [i \in 1..Len(m) |->
                  [district_n |-> m[i].district_n,
                   geometry   |-> m[i].geometry,
                   order      |-> m[i].order,
                   date_range |-> m[i].date_range,
                   start_date |-> Piece(m[i].date_range, 1),
                   end_date   |-> Piece(m[i].date_range, 2)]]]

\* merged_gdf['district_n'].unique(): the values in order of first appearance.
RECURSIVE UniqueFrom(_, _, _)
UniqueFrom(rows, i, seen) ==
    IF i > Len(rows) THEN <<>>
    ELSE IF rows[i].district_n \in seen THEN UniqueFrom(rows, i + 1, seen)
    ELSE <<rows[i].district_n>>
           \o UniqueFrom(rows, i + 1, seen \cup {rows[i].district_n})

Unique(rows) == UniqueFrom(rows, 1, {})

\* merged_gdf[merged_gdf['district_n'] == district_n]
SessionRows(rows, district_n) ==
    LET Same(r) == r.district_n = district_n IN SelectSeq(rows, Same)

\* ---------------------------------------------------------- fact cache --
\* The fixed text of the except branch.
Placeholder == [text |-> "Historical fact not available.", about |-> <<>>, ver |-> 0]

\* What the service answers to the prompt built from date_str; an answer
\* given after the service changed differs from an earlier one.
Answer(date_str, ver) == [text |-> "fact", about |-> date_str, ver |-> ver]

\* The body without its except branch: a failure leaves the function.
FetchFact_uncaught(mode, ver, start_date, end_date) ==
    [fact   |-> IF mode = "up"
                THEN Answer(start_date \o <<TO>> \o end_date, ver)
                ELSE Placeholder,
     failed |-> mode # "up",
     raised |-> mode # "up"]

\* The body of get_historical_fact: date_str, the call of the service and
\* the reading of its response inside try; any exception of either
\* ("error": the call raises, "malformed": the response has no
\* choices[0].message.content) gives the placeholder.
FetchFact(mode, ver, start_date, end_date) ==
    [fact   |-> IF mode = "up"
                THEN Answer(start_date \o <<TO>> \o end_date, ver)
                ELSE Placeholder,
     failed |-> mode # "up",
     raised |-> FALSE]

\* A cache that never finds an entry.
CacheHit_never(c, key) == FALSE

\* st.cache_data: a call whose arguments were seen returns the stored value.
CacheHit(c, key) == key \in DOMAIN c

\* A cache that keeps only the values of calls that succeeded.
CacheStore_successOnly(c, key, r) ==
    IF r.failed THEN c
    ELSE [k \in DOMAIN c \cup {key} |-> IF k = key THEN r.fact ELSE c[k]]

\* st.cache_data: the value the body returned is stored under the arguments.
CacheStore(c, key, r) ==
    [k \in DOMAIN c \cup {key} |-> IF k = key THEN r.fact ELSE c[k]]

\* get_historical_fact under @st.cache_data, keyed by its four arguments.
get_historical_fact(c, mode, ver, district_n, start_date, end_date, rc) ==
    LET key == <<district_n, start_date, end_date, rc>>
    IN  IF CacheHit(c, key)
        THEN [fact |-> c[key], called |-> FALSE, failed |-> FALSE,
              raised |-> FALSE, cache |-> c]
        ELSE LET r == FetchFact(mode, ver, start_date, end_date)
             IN  [fact |-> r.fact, called |-> TRUE, failed |-> r.failed,
                  raised |-> r.raised,
                  cache |-> IF r.raised THEN c ELSE CacheStore(c, key, r)]

\* The counter raised by every run, clicked or not.
NextRefreshCount_always(rc, clicked) == rc + 1

\* The counter left alone by the button.
NextRefreshCount_never(rc, clicked) == rc

\* if st.button(...): st.session_state.refresh_count += 1
NextRefreshCount(rc, clicked) == IF clicked THEN rc + 1 ELSE rc

\* ----------------------------------------------------------- the state --
SvcModes == {"up", "error", "malformed"}

\* Identifiers the explored boundary files use: "001" and "003" of the
\* catalog (so that "002" has no geometry) and "026", which the catalog
\* does not hold.
GeomIds == {Fmt3(1), Fmt3(3), Fmt3(NumDistricts + 1)}

GeomRows == {[district_n |-> d, geometry |-> "Polygon"] : d \in GeomIds}

\* A missing or corrupt file, or any rows in any order.
Sources ==
    {[ok |-> FALSE, rows |-> <<>>]}
      \cup {[ok |-> TRUE, rows |-> s] :
               s \in UNION {[1..k -> GeomRows] : k \in 0..MaxRows}}

Empty == [x \in {} |-> 0]

Init ==
    /\ shapefile \in Sources
    /\ svc \in SvcModes
    /\ svcVer = 0
    /\ district_dates = <<>>
    /\ merged_gdf = <<>>
    /\ refresh_count = 0
    /\ cache = Empty
    /\ pc = "idle"
    /\ unique_sessions = <<>>
    /\ idx = 1
    /\ slides = <<>>
    /\ pauses = 0
    /\ passKind = "first"
    /\ afterCompleted = FALSE
    /\ epoch = Empty
    /\ cachedAtClear = {}
    /\ events = 0

Key3(key) == <<key[1], key[2], key[3]>>

\* main(): load, catalog, merge, the widgets, and the entry of the loop.
\* An exception of the load or of the merge ends the run.
Main(clicked, kind) ==
    LET loaded == load_and_combine_shapefiles(shapefile)
        dates  == create_mapping_dataframe
        m      == merge_data(loaded.rows, dates)
        failed == loaded.raised \/ m.raised
        rows   == IF failed THEN <<>> ELSE m.rows
    IN  /\ district_dates' = IF loaded.raised THEN district_dates ELSE dates
        /\ merged_gdf' = rows
        /\ refresh_count' = IF failed THEN refresh_count
                            ELSE NextRefreshCount(refresh_count, clicked)
        /\ unique_sessions' = Unique(rows)
        /\ idx' = 1
        /\ slides' = <<>>
        /\ pauses' = 0
        /\ pc' = IF failed THEN "aborted"
                 ELSE IF Len(Unique(rows)) = 0 THEN "completed" ELSE "running"
        /\ passKind' = kind
        /\ afterCompleted' = (pc = "completed")
        /\ epoch' = IF clicked /\ ~failed THEN Empty ELSE epoch
        /\ cachedAtClear' = IF clicked /\ ~failed
                            THEN {Key3(k) : k \in DOMAIN cache}
                            ELSE cachedAtClear
        /\ UNCHANGED <<shapefile, cache, svc, svcVer>>

\* The page is opened: the first run of the script.
FirstRun ==
    /\ pc = "idle"
    /\ Main(FALSE, "first")
    /\ UNCHANGED events

\* The slider is moved (clicked = FALSE) or the button is pressed
\* (clicked = TRUE): the script runs again from the top.
Rerun(clicked) ==
    /\ pc \in {"running", "completed"}
    /\ events < MaxEvents
    /\ events' = events + 1
    /\ Main(clicked, IF clicked THEN "refresh" ELSE "rerun")

\* One iteration of the loop of display_slideshow_auto.
ShowSlide ==
    /\ pc = "running"
    /\ LET district_n  == unique_sessions[idx]
           session_gdf == SessionRows(merged_gdf, district_n)
           geometries  == [i \in 1..Len(session_gdf) |-> session_gdf[i].geometry]
           order       == session_gdf[1].order
           first_row   == session_gdf[1]
           r == get_historical_fact(cache, svc, svcVer, district_n,
                                    first_row.start_date, first_row.end_date,
                                    refresh_count)
           k == <<district_n, first_row.start_date, first_row.end_date>>
           before == k \in DOMAIN epoch
           \* what the service, asked now, would return for this key
           fresh == FetchFact(svc, svcVer, first_row.start_date,
                              first_row.end_date).fact
           old == IF before THEN epoch[k]
                  ELSE [calls |-> 0, facts |-> {}, failed |-> FALSE, again |-> FALSE]
           new == [calls  |-> old.calls + (IF r.called THEN 1 ELSE 0),
                   facts  |-> old.facts \cup {r.fact},
                   failed |-> old.failed \/ r.failed,
                   again  |-> before]
       IN  IF r.raised
           THEN /\ pc' = "aborted"
                /\ UNCHANGED <<cache, slides, pauses, idx, epoch>>
           ELSE /\ cache' = r.cache
                /\ slides' = Append(slides,
                      [district_n |-> district_n, order |-> order,
                       start_date |-> first_row.start_date,
                       end_date |-> first_row.end_date,
                       geometries |-> geometries, fact |-> r.fact,
                       called |-> r.called, failed |-> r.failed,
                       cachedBefore |-> before, priorFailed |-> old.failed,
                       svcAt |-> svc,
                       wouldDiffer |-> before /\ fresh \notin old.facts])
                /\ pauses' = pauses + 1
                /\ idx' = idx + 1
                /\ pc' = IF idx = Len(unique_sessions) THEN "completed" ELSE "running"
                /\ epoch' = [x \in DOMAIN epoch \cup {k} |->
                                IF x = k THEN new ELSE epoch[x]]
    /\ UNCHANGED <<shapefile, district_dates, merged_gdf, refresh_count, svc,
                   svcVer, unique_sessions, passKind, afterCompleted,
                   cachedAtClear, events>>

\* The text service changes: it goes down, comes back, or answers anew.
ServiceChange(mode) ==
    /\ events < MaxEvents
    /\ events' = events + 1
    /\ svc' = mode
    /\ svcVer' = svcVer + 1
    /\ UNCHANGED <<shapefile, district_dates, merged_gdf, refresh_count, cache,
                   pc, unique_sessions, idx, slides, pauses, passKind,
                   afterCompleted, epoch, cachedAtClear>>

Next ==
    \/ FirstRun
    \/ \E clicked \in BOOLEAN : Rerun(clicked)
    \/ ShowSlide
    \/ \E mode \in SvcModes : ServiceChange(mode)

Spec == Init /\ [][Next]_vars

\* The loop is sequential code: while a pass is running its next iteration
\* takes place, unless an interaction restarts the script first.
LiveSpec == Spec /\ WF_vars(ShowSlide)

\* ------------------------------------------------------------- claims --
Displayed == [i \in 1..Len(slides) |-> slides[i].district_n]

CatalogIds == {create_mapping_dataframe[i].district_n : i \in 1..NumDistricts}

HasGeometry(d) ==
    shapefile.ok /\ \E i \in 1..Len(shapefile.rows) : shapefile.rows[i].district_n = d

\* C1: in every pass the slides are displayed in strictly ascending order
\* of district identifier, whatever the order of the rows of the source.
C1_AscendingOrder ==
    \A i, j \in 1..Len(slides) :
        i < j => IdLess(slides[i].district_n, slides[j].district_n)

\* C2: a pass makes at most 25 render calls, at most one per identifier
\* (exactly 25 when every catalog district has geometry), and every render
\* call carries the label and the dates the catalog gives its identifier.
C2_RendersFollowCatalog ==
    /\ Len(slides) <= NumDistricts
    /\ \A i, j \in 1..Len(slides) :
          i # j => slides[i].district_n # slides[j].district_n
    /\ \A i \in 1..Len(slides) :
          \E c \in 1..NumDistricts :
              LET row == create_mapping_dataframe[c]
              IN  /\ row.district_n = slides[i].district_n
                  /\ row.order = slides[i].order
                  /\ <<row.date_range[1]>> = slides[i].start_date
                  /\ <<row.date_range[3]>> = slides[i].end_date
    /\ (pc = "completed" /\ \A d \in CatalogIds : HasGeometry(d))
          => Len(slides) = NumDistricts

CurrentKey ==
    LET first_row == SessionRows(merged_gdf, unique_sessions[idx])[1]
    IN  <<unique_sessions[idx], first_row.start_date, first_row.end_date>>

\* C5: when the service fails for a district, the loop still displays the
\* slide of that district, with the placeholder as its fact, goes on to
\* the next district, and the pass reaches its end.
C5_PlaceholderAndContinue ==
    /\ [][(pc = "running" /\ events' = events /\ svc # "up"
             /\ CurrentKey \notin DOMAIN epoch)
          => /\ Len(slides') = Len(slides) + 1
             /\ slides'[Len(slides')].district_n = unique_sessions[idx]
             /\ slides'[Len(slides')].fact = Placeholder
             /\ pauses' = pauses + 1
             /\ idx' = idx + 1
             /\ pc' = IF idx = Len(unique_sessions) THEN "completed"
                      ELSE "running"]_vars
    /\ (pc = "running" /\ svc # "up") ~> (pc = "completed")

\* A pass is complete in which a fetch failed and a later slide followed.
C5_Witness ==
    /\ pc = "completed"
    /\ \E i, j \in 1..Len(slides) :
          /\ i < j
          /\ slides[i].failed
          /\ slides[i].fact = Placeholder

\* C6: a catalog district without geometry in the source gets no slide and
\* no pause, and every district that has geometry is displayed in the pass.
C6_SkipsWithoutGeometry ==
    /\ \A i \in 1..Len(slides) :
          /\ HasGeometry(slides[i].district_n)
          /\ Len(slides[i].geometries) >= 1
    /\ pauses = Len(slides)
    /\ pc = "completed" =>
          \A d \in CatalogIds : HasGeometry(d) => d \in Range(Displayed)

\* A complete pass displayed two districts between which a catalog
\* district has no geometry.
C6_Witness ==
    /\ pc = "completed"
    /\ \E i, j \in 1..Len(slides) : \E d \in CatalogIds :
          /\ i < j
          /\ IdLess(slides[i].district_n, d)
          /\ IdLess(d, slides[j].district_n)
          /\ ~HasGeometry(d)

\* C7: no error of the geometry source or of the fact service ends the
\* run: it reaches the end of the pass.
C7_NeverHalts == pc # "aborted"

MonthNumber(m) ==
    CASE m = "January" -> 1 [] m = "February" -> 2 [] m = "March" -> 3
      [] m = "April" -> 4 [] m = "May" -> 5 [] m = "June" -> 6
      [] m = "July" -> 7 [] m = "August" -> 8 [] m = "September" -> 9
      [] m = "October" -> 10 [] m = "November" -> 11 [] m = "December" -> 12

DateBefore(a, b) ==
    \/ a.y < b.y
    \/ a.y = b.y /\ MonthNumber(a.m) < MonthNumber(b.m)
    \/ a.y = b.y /\ a.m = b.m /\ a.d < b.d

StartOf(row) == SplitTo(row.date_range)[1][1]
EndOf(row) == SplitTo(row.date_range)[2][1]

\* Identifiers "001".."025", each once and in order, distinct labels, every
\* session starting before it ends and ending before the next one starts.
WellFormed(catalog) ==
    /\ Len(catalog) = NumDistricts
    /\ \A i \in 1..Len(catalog) :
          /\ catalog[i].district_n = Fmt3(i)
          /\ Len(SplitTo(catalog[i].date_range)) = 2
          /\ DateBefore(StartOf(catalog[i]), EndOf(catalog[i]))
    /\ \A i, j \in 1..Len(catalog) :
          i # j => /\ catalog[i].order # catalog[j].order
                   /\ catalog[i].district_n # catalog[j].district_n
    /\ \A i \in 1..(Len(catalog) - 1) :
          DateBefore(EndOf(catalog[i]), StartOf(catalog[i + 1]))

BuiltCatalogWellFormed == WellFormed(create_mapping_dataframe)

\* C9: the catalog main() works with is the table create_mapping_dataframe
\* builds, and that table holds the identifiers "001".."025", each once and
\* in order, with distinct labels; every session starts before it ends and
\* ends before the next one starts.
C9_CatalogWellFormed ==
    district_dates # <<>> =>
        /\ district_dates = create_mapping_dataframe
        /\ BuiltCatalogWellFormed

\* main() has built the catalog and merged it.
C9_Witness ==
    /\ district_dates # <<>>
    /\ Len(merged_gdf) >= 1
    /\ merged_gdf[1].order = "1st"

\* C10: a failed fetch is memoized: a later fetch of the same key under the
\* same refresh_count returns the placeholder and does not call the
\* service, also when the service is up again.
C10_FailureMemoized ==
    \A i \in 1..Len(slides) :
        slides[i].priorFailed =>
            /\ slides[i].fact = Placeholder
            /\ ~slides[i].called

\* A key whose fetch failed is fetched again while the service is up.
C10_Witness ==
    \E i \in 1..Len(slides) :
        /\ slides[i].priorFailed
        /\ slides[i].svcAt = "up"

=============================================================================
